---- MODULE Spec2Model ----
(***************************************************************************)
(* Model of the resilient API client of the padel tournament application  *)
(* (nextjs-app/src/modules/shared/services/apiClient.ts): cache store,    *)
(* interceptor pipeline, retry policy and the request executor.           *)
(*                                                                         *)
(* JavaScript runs one task at a time: every action below is the code     *)
(* that runs between two suspension points (await) of a call.             *)
(* Time is counted in ticks; timers (the timeout timer, the backoff       *)
(* sleep) fire when the clock reaches their deadline.                     *)
(***************************************************************************)
EXTENDS Integers, Sequences, FiniteSets, TLC

VARIABLES
    now,                   \* Date.now() / the timer clock
    config,                \* timeout, defaultHeaders, retryConfig of the client
    cache,                 \* ApiClient.cache : Map<key, {data, timestamp}>
    requestInterceptors,   \* ApiClient.requestInterceptors
    responseInterceptors,  \* ApiClient.responseInterceptors
    call,                  \* per call of request(): locals and position
    retry,                 \* user/utils/apiUtils.ts withRetry: one execution
    batch,                 \* user/utils/apiUtils.ts batchRequests: one execution
    server,                \* the backend: the version of the user record it holds
    repository,            \* MockUserRepository.users and MockAuthService.users
    registration,          \* per call of UserService.registerUser: locals and position
    hook,                  \* one mounted useUser hook: props, state and fetches in flight
    services               \* user/services/index.ts: the module-level defaults

\* the state of the shared ApiClient
clientVars == <<now, config, cache, requestInterceptors, responseInterceptors, call>>

\* the state of the user module outside the ApiClient
moduleVars == <<retry, batch, server, repository, registration, hook, services>>

vars == <<clientVars, moduleVars>>

-----------------------------------------------------------------------------
(* Bounds of the model *)

MaxTime == 3
MaxInterceptors == 2
MaxAttemptsBound == 3
MaxVersion == 2          \* updates the backend applies
MaxRequests == 4         \* requests in one batch
MaxConcurrencyBound == 3 \* maxConcurrency of a batch
MaxUsers == 3            \* records in the repository
MaxFetches == 3          \* fetches one mounted hook starts
MaxInitializations == 3  \* calls of initializeServices

-----------------------------------------------------------------------------
(* Values: decoded bodies, headers, urls *)

\* JavaScript null (an absent cache value, an unset local)
Null == [t |-> "null", v |-> ""]

\* the result of response.text()
TextValue(raw) == [t |-> "text", v |-> raw]

\* the result of response.json() on a body that parses
JsonValue(raw) == [t |-> "json", v |-> raw]

\* raw bodies a server may send: an empty body and a JSON object
Bodies == {"", "{u}"}

\* JSON.parse succeeds on the body
JsonValid(raw) == raw \in {"{u}", "0", "null", "{v0}", "{v1}", "{v2}", "{v3}"}

\* the object { message: errorData } built for an error body that does not parse
MessageObject(raw) == [t |-> "message", v |-> raw]

\* JavaScript truthiness of a decoded value: `if (cachedData)`
Truthy(d) ==
    CASE d.t = "null" -> FALSE
      [] d.t = "text" -> d.v # ""
      [] d.t = "json" -> d.v \notin {"0", "false", "null"}

Statuses == {200, 404, 500}

ContentTypes == {"application/json", "text/plain"}

\* Response.ok
Ok(status) == status >= 200 /\ status <= 299

Responses == [status : Statuses, ctype : ContentTypes, body : Bodies, trace : {<<>>}]

NoResponse == [status |-> 0, ctype |-> "", body |-> "", trace |-> <<>>]

\* header maps: functions from header name to value
EmptyHeaders == [n \in {} |-> ""]

MergeHeadersDefaultsWin(a, b) ==
    [n \in DOMAIN a \cup DOMAIN b |-> IF n \in DOMAIN a THEN a[n] ELSE b[n]]

\* { ...a, ...b }: b's values override a's
MergeHeaders(a, b) ==
    [n \in DOMAIN a \cup DOMAIN b |-> IF n \in DOMAIN b THEN b[n] ELSE a[n]]

\* const { [name]: _, ...rest } = h
WithoutHeader(h, name) == [n \in DOMAIN h \ {name} |-> h[n]]

\* A url is a string, modelled as the sequence of its pieces
BaseUrl == <<"http://api">>

RECURSIVE JoinPairs(_)
\* URLSearchParams(params).toString(): the pairs in insertion order, joined by &
JoinPairs(pairs) ==
    IF Len(pairs) = 0 THEN <<>>
    ELSE IF Len(pairs) = 1 THEN <<pairs[1]>>
    ELSE <<pairs[1], "&">> \o JoinPairs(Tail(pairs))

\* params of get(): undefined, or an object whose entries are in insertion order
NoParams == [given |-> FALSE, pairs |-> <<>>]
Params(pairs) == [given |-> TRUE, pairs |-> pairs]

RECURSIVE Pow(_, _)
\* Math.pow on naturals
Pow(b, e) == IF e = 0 THEN 1 ELSE b * Pow(b, e - 1)

Min(a, b) == IF a < b THEN a ELSE b

-----------------------------------------------------------------------------
(* Cache store *)

\* ApiClient.getCacheKey(url, params)
GetCacheKey(url, params) ==
    LET fullUrl == BaseUrl \o url
    IN  IF params.given
        THEN fullUrl \o <<"?">> \o JoinPairs(params.pairs)
        ELSE fullUrl

\* this.cache.delete(key)
CacheDelete(store, key) == [k \in DOMAIN store \ {key} |-> store[k]]

\* getFromCache with the expiry test written `>=`: an entry whose age equals
\* the ttl is already expired
GetFromCacheHitCheckOnlyWithTtl(store, cacheKey, cacheTtl, t) ==
    IF cacheKey \in DOMAIN store /\ cacheTtl # 0
    THEN IF t - store[cacheKey].timestamp > cacheTtl
         THEN [value |-> Null, cache |-> CacheDelete(store, cacheKey)]
         ELSE [value |-> store[cacheKey].data, cache |-> store]
    ELSE [value |-> Null, cache |-> store]

GetFromCacheExpiringAtTtl(store, cacheKey, cacheTtl, t) ==
    IF cacheKey \in DOMAIN store /\ cacheTtl # 0
    THEN IF t - store[cacheKey].timestamp >= cacheTtl
         THEN [value |-> Null, cache |-> CacheDelete(store, cacheKey)]
         ELSE [value |-> store[cacheKey].data, cache |-> store]
    ELSE [value |-> IF cacheKey \in DOMAIN store THEN store[cacheKey].data ELSE Null,
          cache |-> store]

\* ApiClient.getFromCache(cacheKey, cacheTtl) at time t:
\* the value returned and the cache it leaves
GetFromCache(store, cacheKey, cacheTtl, t) ==
    IF cacheKey \in DOMAIN store /\ cacheTtl # 0
    THEN IF t - store[cacheKey].timestamp > cacheTtl
         THEN [value |-> Null, cache |-> CacheDelete(store, cacheKey)]
         ELSE [value |-> store[cacheKey].data, cache |-> store]
    ELSE [value |-> IF cacheKey \in DOMAIN store THEN store[cacheKey].data ELSE Null,
          cache |-> store]

SetCacheKeepingFirst(store, cacheKey, data, t) ==
    [k \in DOMAIN store \cup {cacheKey} |->
        IF k = cacheKey /\ k \notin DOMAIN store
        THEN [data |-> data, timestamp |-> t] ELSE store[k]]

\* ApiClient.setCache(cacheKey, data) at time t
SetCache(store, cacheKey, data, t) ==
    [k \in DOMAIN store \cup {cacheKey} |->
        IF k = cacheKey THEN [data |-> data, timestamp |-> t] ELSE store[k]]

-----------------------------------------------------------------------------
(* Interceptor pipeline *)

\* The interceptors a caller may register.  A request interceptor returns the
\* (url, options) it was given with its own mark added to the options; a
\* response interceptor returns the response with its own mark added.
RequestInterceptorIds == {"A", "B"}
ResponseInterceptorIds == {"C", "D"}

RunRequestInterceptor(i, rd) ==
    [url |-> rd.url, options |-> [rd.options EXCEPT !.trace = Append(@, i)]]

RunResponseInterceptor(i, response) ==
    [response EXCEPT !.trace = Append(@, i)]

RECURSIVE ApplyRequestInterceptors(_, _)
\* ApiClient.applyRequestInterceptors: result = interceptor(result.url, result.options)
ApplyRequestInterceptors(rd, interceptors) ==
    IF interceptors = <<>> THEN rd
    ELSE ApplyRequestInterceptors(RunRequestInterceptor(Head(interceptors), rd),
                                  Tail(interceptors))

RECURSIVE ApplyResponseInterceptorsReversed(_, _)
\* the response chain run from the last registered interceptor to the first
ApplyResponseInterceptorsReversed(response, interceptors) ==
    IF interceptors = <<>> THEN response
    ELSE RunResponseInterceptor(Head(interceptors),
             ApplyResponseInterceptorsReversed(response, Tail(interceptors)))

RECURSIVE ApplyResponseInterceptors(_, _)
\* ApiClient.applyResponseInterceptors: result = interceptor(result)
ApplyResponseInterceptors(response, interceptors) ==
    IF interceptors = <<>> THEN response
    ELSE ApplyResponseInterceptors(RunResponseInterceptor(Head(interceptors), response),
                                   Tail(interceptors))

-----------------------------------------------------------------------------
(* Retry policy *)

\* the backoff with the exponent one too high
BackoffDelayFromSecondPower(retryConfig, attempt) ==
    Min(retryConfig.initialDelay * Pow(retryConfig.backoffFactor, attempt),
        retryConfig.maxDelay)

\* executeWithRetry: the delay slept after failed attempt number `attempt`
BackoffDelay(retryConfig, attempt) ==
    Min(retryConfig.initialDelay * Pow(retryConfig.backoffFactor, attempt - 1),
        retryConfig.maxDelay)

\* the last-attempt test one attempt early
IsLastAttemptOneEarly(retryConfig, attempt) == attempt >= retryConfig.maxAttempts - 1

\* executeWithRetry: `if (attempt === this.retryConfig.maxAttempts) throw error`
IsLastAttempt(retryConfig, attempt) == attempt = retryConfig.maxAttempts

-----------------------------------------------------------------------------
(* Verb helpers: the arguments each hands to request() *)

DefaultHeaders ==
    [n \in {"Content-Type", "Accept"} |-> "application/json"]

NoRequest ==
    [op |-> "none", path |-> <<>>, params |-> NoParams,
     cache |-> FALSE, cacheTtl |-> 0, headers |-> EmptyHeaders]

GetArgsAlwaysCaching(req) ==
    [url |-> IF req.params.given
             THEN req.path \o <<"?">> \o JoinPairs(req.params.pairs)
             ELSE req.path,
     options |-> [method |-> "GET", headers |-> EmptyHeaders, body |-> "none"],
     cacheOptions |-> [cache |-> TRUE, cacheTtl |-> req.cacheTtl]]

\* ApiClient.get(url, params, options)
GetArgs(req) ==
    [url |-> IF req.params.given
             THEN req.path \o <<"?">> \o JoinPairs(req.params.pairs)
             ELSE req.path,
     options |-> [method |-> "GET", headers |-> EmptyHeaders, body |-> "none"],
     cacheOptions |-> [cache |-> req.cache, cacheTtl |-> req.cacheTtl]]

\* ApiClient.post(url, data, options)
PostArgs(req) ==
    [url |-> req.path,
     options |-> [method |-> "POST", headers |-> req.headers, body |-> "json"],
     cacheOptions |-> [cache |-> FALSE, cacheTtl |-> 0]]

\* ApiClient.put(url, data, options)
PutArgs(req) ==
    [url |-> req.path,
     options |-> [method |-> "PUT", headers |-> req.headers, body |-> "json"],
     cacheOptions |-> [cache |-> FALSE, cacheTtl |-> 0]]

\* ApiClient.delete(url, options)
DeleteArgs(req) ==
    [url |-> req.path,
     options |-> [method |-> "DELETE", headers |-> req.headers, body |-> "none"],
     cacheOptions |-> [cache |-> FALSE, cacheTtl |-> 0]]

\* ApiClient.patch(url, data, options)
PatchArgs(req) ==
    [url |-> req.path,
     options |-> [method |-> "PATCH", headers |-> req.headers, body |-> "json"],
     cacheOptions |-> [cache |-> FALSE, cacheTtl |-> 0]]

\* ApiClient.upload(url, file): the headers option is the default headers
\* without Content-Type
UploadArgs(req, defaultHeaders) ==
    [url |-> req.path,
     options |-> [method |-> "POST",
                  headers |-> WithoutHeader(defaultHeaders, "Content-Type"),
                  body |-> "formData"],
     cacheOptions |-> [cache |-> FALSE, cacheTtl |-> 0]]

RequestArgs(req, defaultHeaders) ==
    CASE req.op = "get" -> GetArgs(req)
      [] req.op = "post" -> PostArgs(req)
      [] req.op = "put" -> PutArgs(req)
      [] req.op = "delete" -> DeleteArgs(req)
      [] req.op = "patch" -> PatchArgs(req)
      [] req.op = "upload" -> UploadArgs(req, defaultHeaders)

\* request(): `options.method === 'GET' || !options.method`
IsGet(options) == options.method = "GET"

\* request(): requestOptions = { ...options, headers: { ...defaultHeaders, ...options.headers } }
RequestOptions(options, defaultHeaders) ==
    [method |-> options.method,
     body |-> options.body,
     headers |-> MergeHeaders(defaultHeaders, options.headers),
     trace |-> <<>>]

-----------------------------------------------------------------------------
(* The request executor: one record per call of request() *)

Calls == {1, 2}

NoSent ==
    [url |-> <<>>,
     options |-> [method |-> "", body |-> "", headers |-> EmptyHeaders, trace |-> <<>>]]

NoError == [kind |-> "none", status |-> 0, attempt |-> 0, body |-> Null]

NoOutcome == [kind |-> "none", value |-> Null, error |-> NoError]

\* a call that has not been made
IdleCall ==
    [pc |-> "idle",          \* idle, fetching, errbody, sleeping, decoding, returned, raised
     req |-> NoRequest,      \* the verb helper called and its arguments
     cacheBefore |-> [k \in {} |-> Null],  \* the cache store as the call found it
     cachedData |-> Null,    \* request(): const cachedData
     cacheReads |-> 0,       \* number of times the call ran getFromCache
     cacheWrites |-> 0,      \* number of times the call ran setCache
     sent |-> NoSent,        \* (interceptedUrl, interceptedOptions) handed to fetch
     requestRuns |-> 0,      \* number of runs of applyRequestInterceptors
     responseRuns |-> 0,     \* number of runs of applyResponseInterceptors
     attempt |-> 0,          \* executeWithRetry: let attempt
     fetches |-> 0,          \* number of times fetch was invoked
     sleeps |-> <<>>,        \* the delays slept by executeWithRetry, in order
     timers |-> 0,           \* number of timeout timers request() has armed
     timerArmed |-> FALSE,   \* the timeout timer (timeoutId) is pending
     deadline |-> 0,         \* when the timeout timer fires
     aborted |-> FALSE,      \* controller.signal.aborted
     wakeAt |-> 0,           \* when the backoff sleep ends
     resp |-> NoResponse,    \* the intercepted response being read
     lastError |-> NoError,  \* executeWithRetry: let lastError
     outcome |-> NoOutcome]  \* what request() returned or raised

\* errors raised inside the retried operation or by the body decoding
NetworkError(attempt) ==
    [kind |-> "network", status |-> 0, attempt |-> attempt, body |-> Null]

AbortError(attempt) ==
    [kind |-> "abort", status |-> 0, attempt |-> attempt, body |-> Null]

DecodeError(attempt) ==
    [kind |-> "decode", status |-> 0, attempt |-> attempt, body |-> Null]

\* the TypeError of reading a property of null (`parsedError.message` when the
\* error body parsed to null); it has no status and no response
TypeError(attempt) ==
    [kind |-> "type", status |-> 0, attempt |-> attempt, body |-> Null]

\* request(): the error built for a response that is not ok, with
\* error.status and error.response (JSON.parse of the text, else an object
\* holding the text as its message); reading .message of a null body throws
HttpError(response, attempt) ==
    IF JsonValid(response.body) /\ response.body = "null"
    THEN TypeError(attempt)
    ELSE [kind |-> "http", status |-> response.status, attempt |-> attempt,
          body |-> IF JsonValid(response.body)
                   THEN JsonValue(response.body)
                   ELSE MessageObject(response.body)]

FailedLeavingTimer(cr, error, retryConfig, t) ==
    IF IsLastAttempt(retryConfig, cr.attempt)
    THEN [cr EXCEPT !.pc = "raised",
                    !.lastError = error,
                    !.resp = NoResponse,
                    !.outcome = [kind |-> "error", value |-> Null, error |-> error]]
    ELSE [cr EXCEPT !.pc = "sleeping",
                    !.lastError = error,
                    !.resp = NoResponse,
                    !.sleeps = Append(@, BackoffDelay(retryConfig, cr.attempt)),
                    !.wakeAt = t + BackoffDelay(retryConfig, cr.attempt)]

\* executeWithRetry, catch block, followed by the catch block of request()
\* when the error is rethrown: the call record after `error` was caught at time t
Failed(cr, error, retryConfig, t) ==
    IF IsLastAttempt(retryConfig, cr.attempt)
    THEN [cr EXCEPT !.pc = "raised",
                    !.lastError = error,
                    !.timerArmed = FALSE,
                    !.deadline = 0,
                    !.resp = NoResponse,
                    !.outcome = [kind |-> "error", value |-> Null, error |-> error]]
    ELSE [cr EXCEPT !.pc = "sleeping",
                    !.lastError = error,
                    !.resp = NoResponse,
                    !.sleeps = Append(@, BackoffDelay(retryConfig, cr.attempt)),
                    !.wakeAt = t + BackoffDelay(retryConfig, cr.attempt)]

\* request(), from its entry to its first suspension: the cache check, the
\* header merge, the request interceptors, the timeout timer and the first
\* invocation of the retried operation (the call of fetch)
CallStart(c, req) ==
    /\ call[c].pc = "idle"
    /\ LET args == RequestArgs(req, config.defaultHeaders)
           useCache == IsGet(args.options) /\ args.cacheOptions.cache
           cacheKey == GetCacheKey(args.url, NoParams)
           rd == IF useCache
                 THEN GetFromCache(cache, cacheKey, args.cacheOptions.cacheTtl, now)
                 ELSE [value |-> Null, cache |-> cache]
           intercepted ==
               ApplyRequestInterceptors(
                   [url |-> BaseUrl \o args.url,
                    options |-> RequestOptions(args.options, config.defaultHeaders)],
                   requestInterceptors)
       IN  /\ cache' = rd.cache
           /\ IF useCache /\ Truthy(rd.value)
              THEN call' = [call EXCEPT ![c] =
                       [IdleCall EXCEPT !.pc = "returned",
                                        !.req = req,
                                        !.cacheBefore = cache,
                                        !.cacheReads = IF useCache THEN 1 ELSE 0,
                                        !.cachedData = rd.value,
                                        !.outcome = [kind |-> "value", value |-> rd.value,
                                                     error |-> NoError]]]
              ELSE call' = [call EXCEPT ![c] =
                       [IdleCall EXCEPT !.pc = "fetching",
                                        !.req = req,
                                        !.cacheBefore = cache,
                                        !.cacheReads = IF useCache THEN 1 ELSE 0,
                                        !.cachedData = rd.value,
                                        !.sent = intercepted,
                                        !.requestRuns = 1,
                                        !.timers = 1,
                                        !.timerArmed = TRUE,
                                        !.deadline = now + config.timeout,
                                        !.attempt = 1,
                                        !.fetches = 1]]
    /\ UNCHANGED <<moduleVars, now, config, requestInterceptors, responseInterceptors>>

\* fetch resolves with a response: clearTimeout, the response interceptors,
\* then the ok test; the next suspension is the read of the body
FetchResolve(c, response) ==
    /\ call[c].pc = "fetching"
    /\ ~call[c].aborted
    /\ LET interceptedResponse == ApplyResponseInterceptors(response, responseInterceptors)
       IN  call' = [call EXCEPT ![c] =
               [@ EXCEPT !.timerArmed = FALSE,
                         !.deadline = 0,
                         !.responseRuns = @ + 1,
                         !.resp = interceptedResponse,
                         !.pc = IF Ok(interceptedResponse.status)
                                THEN "decoding" ELSE "errbody"]]
    /\ UNCHANGED <<moduleVars, now, config, cache, requestInterceptors, responseInterceptors>>

\* fetch rejects: no response was received
FetchReject(c) ==
    /\ call[c].pc = "fetching"
    /\ ~call[c].aborted
    /\ call' = [call EXCEPT ![c] =
           Failed(@, NetworkError(call[c].attempt), config.retryConfig, now)]
    /\ UNCHANGED <<moduleVars, now, config, cache, requestInterceptors, responseInterceptors>>

\* the timeout callback aborting through a controller shared by the calls in
\* flight
TimeoutFireSharedController(c) ==
    /\ call[c].timerArmed
    /\ call[c].deadline <= now
    /\ call' = [d \in Calls |->
           IF d = c
           THEN [call[d] EXCEPT !.timerArmed = FALSE, !.deadline = 0, !.aborted = TRUE]
           ELSE IF call[d].pc \in {"fetching", "sleeping"}
                THEN [call[d] EXCEPT !.aborted = TRUE]
                ELSE call[d]]
    /\ UNCHANGED <<moduleVars, now, config, cache, requestInterceptors, responseInterceptors>>

\* the timeout timer fires: controller.abort()
TimeoutFire(c) ==
    /\ call[c].timerArmed
    /\ call[c].deadline <= now
    /\ call' = [call EXCEPT ![c] =
           [@ EXCEPT !.timerArmed = FALSE, !.deadline = 0, !.aborted = TRUE]]
    /\ UNCHANGED <<moduleVars, now, config, cache, requestInterceptors, responseInterceptors>>

\* fetch rejects because its signal is aborted
AbortReject(c) ==
    /\ call[c].pc = "fetching"
    /\ call[c].aborted
    /\ call' = [call EXCEPT ![c] =
           Failed(@, AbortError(call[c].attempt), config.retryConfig, now)]
    /\ UNCHANGED <<moduleVars, now, config, cache, requestInterceptors, responseInterceptors>>

\* the text of a response that is not ok was read: the error is built and thrown
ErrBodyRead(c) ==
    /\ call[c].pc = "errbody"
    /\ call' = [call EXCEPT ![c] =
           Failed(@, HttpError(call[c].resp, call[c].attempt), config.retryConfig, now)]
    /\ UNCHANGED <<moduleVars, now, config, cache, requestInterceptors, responseInterceptors>>

\* the backoff sleep ends: the next iteration of the loop invokes the
\* operation; when the loop condition fails, lastError is thrown
SleepWake(c) ==
    /\ call[c].pc = "sleeping"
    /\ call[c].wakeAt <= now
    /\ ~(call[c].timerArmed /\ call[c].deadline <= now)
    /\ call' = [call EXCEPT ![c] =
           IF call[c].attempt + 1 <= config.retryConfig.maxAttempts
           THEN [@ EXCEPT !.pc = "fetching",
                          !.wakeAt = 0,
                          !.attempt = @ + 1,
                          !.fetches = @ + 1]
           ELSE [@ EXCEPT !.pc = "raised",
                          !.wakeAt = 0,
                          !.timerArmed = FALSE,
                          !.deadline = 0,
                          !.outcome = [kind |-> "error", value |-> Null,
                                       error |-> call[c].lastError]]]
    /\ UNCHANGED <<moduleVars, now, config, cache, requestInterceptors, responseInterceptors>>

DecodeCachingFailure(c) ==
    /\ call[c].pc = "decoding"
    /\ LET cr == call[c]
           args == RequestArgs(cr.req, config.defaultHeaders)
           isJson == cr.resp.ctype = "application/json"
           data == IF isJson THEN JsonValue(cr.resp.body) ELSE TextValue(cr.resp.body)
           failed == isJson /\ ~JsonValid(cr.resp.body)
       IN  /\ call' = [call EXCEPT ![c] =
                  IF failed
                  THEN [@ EXCEPT !.pc = "raised",
                                 !.timerArmed = FALSE,
                                 !.deadline = 0,
                                 !.resp = NoResponse,
                                 !.outcome = [kind |-> "error", value |-> Null,
                                              error |-> DecodeError(cr.attempt)]]
                  ELSE [@ EXCEPT !.pc = "returned",
                                 !.resp = NoResponse,
                                 !.cacheWrites =
                                     IF IsGet(args.options) /\ args.cacheOptions.cache
                                     THEN @ + 1 ELSE @,
                                 !.outcome = [kind |-> "value", value |-> data,
                                              error |-> NoError]]]
           /\ cache' = IF IsGet(args.options) /\ args.cacheOptions.cache
                       THEN SetCache(cache, GetCacheKey(args.url, NoParams),
                                     IF failed THEN Null ELSE data, now)
                       ELSE cache
    /\ UNCHANGED <<moduleVars, now, config, requestInterceptors, responseInterceptors>>

\* the body of an ok response was read: decode by content type, store a
\* cacheable GET, return; a body that does not decode is raised through the
\* catch block of request()
Decode(c) ==
    /\ call[c].pc = "decoding"
    /\ LET cr == call[c]
           args == RequestArgs(cr.req, config.defaultHeaders)
           isJson == cr.resp.ctype = "application/json"
           data == IF isJson THEN JsonValue(cr.resp.body) ELSE TextValue(cr.resp.body)
       IN  IF isJson /\ ~JsonValid(cr.resp.body)
           THEN /\ call' = [call EXCEPT ![c] =
                        [@ EXCEPT !.pc = "raised",
                                  !.timerArmed = FALSE,
                                  !.deadline = 0,
                                  !.resp = NoResponse,
                                  !.outcome = [kind |-> "error", value |-> Null,
                                               error |-> DecodeError(cr.attempt)]]]
                /\ cache' = cache
           ELSE /\ call' = [call EXCEPT ![c] =
                        [@ EXCEPT !.pc = "returned",
                                  !.resp = NoResponse,
                                  !.cacheWrites =
                                      IF IsGet(args.options) /\ args.cacheOptions.cache
                                      THEN @ + 1 ELSE @,
                                  !.outcome = [kind |-> "value", value |-> data,
                                               error |-> NoError]]]
                /\ cache' = IF IsGet(args.options) /\ args.cacheOptions.cache
                            THEN SetCache(cache, GetCacheKey(args.url, NoParams), data, now)
                            ELSE cache
    /\ UNCHANGED <<moduleVars, now, config, requestInterceptors, responseInterceptors>>

\* the caller has taken the outcome; the call slot can be used again
Finish(c) ==
    /\ call[c].pc \in {"returned", "raised"}
    /\ call' = [call EXCEPT ![c] = IdleCall]
    /\ UNCHANGED <<moduleVars, now, config, cache, requestInterceptors, responseInterceptors>>

\* ApiClient.clearCache(url), called by caller c; it is synchronous and returns
\* at once.  An empty url is falsy, like no argument: the cache is emptied.
ClearCache(c, url) ==
    /\ call[c].pc = "idle"
    /\ cache' = IF url # <<>>
                THEN CacheDelete(cache, BaseUrl \o url)
                ELSE [k \in {} |-> Null]
    /\ call' = [call EXCEPT ![c] =
           [IdleCall EXCEPT !.pc = "returned",
                            !.req = [NoRequest EXCEPT !.op = "clearCache", !.path = url],
                            !.outcome = [kind |-> "value", value |-> Null,
                                         error |-> NoError]]]
    /\ UNCHANGED <<moduleVars, now, config, requestInterceptors, responseInterceptors>>

\* ApiClient.addRequestInterceptor
AddRequestInterceptor(i) ==
    /\ Len(requestInterceptors) < MaxInterceptors
    /\ requestInterceptors' = Append(requestInterceptors, i)
    /\ UNCHANGED <<moduleVars, now, config, cache, responseInterceptors, call>>

\* ApiClient.addResponseInterceptor
AddResponseInterceptor(i) ==
    /\ Len(responseInterceptors) < MaxInterceptors
    /\ responseInterceptors' = Append(responseInterceptors, i)
    /\ UNCHANGED <<moduleVars, now, config, cache, requestInterceptors, call>>

\* time passes, unless a timer is due, an aborted fetch has yet to reject, or
\* a settled call has yet to resume its caller
Tick ==
    /\ now < MaxTime
    /\ \A c \in Calls :
          /\ ~(call[c].timerArmed /\ call[c].deadline <= now)
          /\ ~(call[c].pc = "sleeping" /\ call[c].wakeAt <= now)
          /\ ~(call[c].pc = "fetching" /\ call[c].aborted)
          /\ call[c].pc \notin {"returned", "raised"}
    /\ now' = now + 1
    /\ UNCHANGED <<moduleVars, config, cache, requestInterceptors, responseInterceptors, call>>

-----------------------------------------------------------------------------
(* Specifications *)

TypeOK ==
    /\ now \in 0..MaxTime
    /\ \A c \in Calls :
          call[c].pc \in {"idle", "fetching", "errbody", "sleeping",
                          "decoding", "returned", "raised"}

-----------------------------------------------------------------------------
(* user/utils/apiUtils.ts: withRetry, run on the operation of apiRequest *)

\* an error has no `response` property
NoErrorResponse == [present |-> FALSE, status |-> 0]

\* the ApiError that parseErrorFromResponse builds (createApiError): message,
\* status, code, details, timestamp, and no `response` property
ParsedApiError(status) ==
    [kind |-> "api", status |-> status, response |-> NoErrorResponse]

\* what fetch rejects with: a TypeError, without status and without response
FetchFailure == [kind |-> "network", status |-> 0, response |-> NoErrorResponse]

\* an error that carries the response it comes from (error.response.status),
\* as an operation other than apiRequest may throw
ResponseError(status) ==
    [kind |-> "response", status |-> status,
     response |-> [present |-> TRUE, status |-> status]]

NoRetryError == [kind |-> "none", status |-> 0, response |-> NoErrorResponse]

\* DEFAULT_RETRY_CONFIG.retryCondition:
\* !error.response || error.response.status >= 500
DefaultRetryCondition(error) ==
    ~error.response.present \/ error.response.status >= 500

NoRetryConfig ==
    [maxAttempts |-> 0, initialDelay |-> 0, maxDelay |-> 0, backoffFactor |-> 0]

\* no execution of withRetry
IdleRetry ==
    [pc |-> "idle",            \* idle, running, sleeping, returned, raised
     config |-> NoRetryConfig, \* { ...DEFAULT_RETRY_CONFIG, ...config }
     attempt |-> 0,            \* let attempt
     delay |-> 0,              \* let delay
     invocations |-> 0,        \* number of times operation() was invoked
     sleeps |-> <<>>,          \* the delays slept, in order
     lastError |-> NoRetryError]

\* withRetry(operation, config) up to the first invocation of operation
WithRetryStart(retryConfig) ==
    /\ retry.pc = "idle"
    /\ retry' = [IdleRetry EXCEPT !.pc = "running",
                                  !.config = retryConfig,
                                  !.attempt = 1,
                                  !.delay = retryConfig.initialDelay,
                                  !.invocations = 1]
    /\ UNCHANGED <<clientVars, batch, server, repository, registration, hook, services>>

\* operation() resolves: withRetry returns its value
OperationResolve ==
    /\ retry.pc = "running"
    /\ retry' = [retry EXCEPT !.pc = "returned"]
    /\ UNCHANGED <<clientVars, batch, server, repository, registration, hook, services>>

\* operation() rejects with error: the catch block of withRetry
OperationReject(error) ==
    /\ retry.pc = "running"
    /\ retry' = IF retry.attempt = retry.config.maxAttempts \/ ~DefaultRetryCondition(error)
                THEN [retry EXCEPT !.pc = "raised", !.lastError = error]
                ELSE [retry EXCEPT !.pc = "sleeping",
                                   !.lastError = error,
                                   !.sleeps = Append(@, retry.delay)]
    /\ UNCHANGED <<clientVars, batch, server, repository, registration, hook, services>>

\* sleep(delay) ends: the delay of the next sleep is computed and the loop
\* invokes the operation again
RetrySleepEnd ==
    /\ retry.pc = "sleeping"
    /\ retry' = [retry EXCEPT !.pc = "running",
                              !.delay = Min(retry.delay * retry.config.backoffFactor,
                                            retry.config.maxDelay),
                              !.attempt = @ + 1,
                              !.invocations = @ + 1]
    /\ UNCHANGED <<clientVars, batch, server, repository, registration, hook, services>>

\* the caller has taken the outcome of withRetry
RetryFinish ==
    /\ retry.pc \in {"returned", "raised"}
    /\ retry' = IdleRetry
    /\ UNCHANGED <<clientVars, batch, server, repository, registration, hook, services>>

-----------------------------------------------------------------------------
(* user/utils/apiUtils.ts: batchRequests (batchApiRequests of
   user/services/apiClient.ts is the same code, with concurrent defaulting to
   true and errors passed through handleApiError).  Request i of the input
   array is known by its index i; the promise built for it in concurrent mode
   is known by the same index. *)

NoBatchOptions == [concurrent |-> FALSE, maxConcurrency |-> 0, failFast |-> FALSE]

\* no execution of batchRequests
IdleBatch ==
    [pc |-> "idle",             \* idle, sequential, race, all, returned, raised
     n |-> 0,                   \* requests.length
     options |-> NoBatchOptions,
     started |-> 0,             \* requests[1..started] have been invoked
     state |-> <<>>,            \* per request: unstarted, inflight, resolved, rejected
     results |-> <<>>,          \* const results
     executing |-> <<>>]        \* const executing

\* the result executeWithLimit (or the sequential loop) builds for request i
BatchResult(i, success) == [request |-> i, success |-> success]

\* the promise of request i has settled
PromiseSettled(b, i) == b.state[i] \in {"resolved", "rejected"}

\* the promise of request i has rejected: its request failed under failFast
PromiseRejected(b, i) == b.state[i] = "rejected" /\ b.options.failFast

RECURSIVE RunLoop(_)
\* the concurrent loop from the top of an iteration to its next await:
\* invoke the next request, push its promise, and either suspend on
\* Promise.race or go on; after the last request suspend on Promise.all
RunLoop(b) ==
    IF b.started = b.n
    THEN [b EXCEPT !.pc = "all"]
    ELSE LET i == b.started + 1
             pushed == [b EXCEPT !.started = i,
                                 !.state[i] = "inflight",
                                 !.executing = Append(@, i)]
         IN  IF Len(pushed.executing) >= b.options.maxConcurrency
             THEN [pushed EXCEPT !.pc = "race"]
             ELSE RunLoop(pushed)

\* executing.splice(executing.findIndex(p => p === promise), 1)
SpliceOut(executing, promise) ==
    SelectSeq(executing, LAMBDA p : p # promise)

\* the awaited promise of the batch function can be resumed
BatchResumable(b) ==
    \/ /\ b.pc = "race"
       /\ \E k \in DOMAIN b.executing : PromiseSettled(b, b.executing[k])
    \/ /\ b.pc = "all"
       /\ \/ \A k \in DOMAIN b.executing : PromiseSettled(b, b.executing[k])
          \/ \E k \in DOMAIN b.executing : PromiseRejected(b, b.executing[k])

\* batchRequests(requests, options) up to its first await
BatchStart(n, options) ==
    /\ batch.pc = "idle"
    /\ LET fresh == [IdleBatch EXCEPT !.n = n,
                                      !.options = options,
                                      !.state = [i \in 1..n |-> "unstarted"]]
       IN  batch' =
              IF options.concurrent
              THEN RunLoop(fresh)
              ELSE IF n = 0
                   THEN [fresh EXCEPT !.pc = "returned"]
                   ELSE [fresh EXCEPT !.pc = "sequential",
                                      !.started = 1,
                                      !.state[1] = "inflight"]
    /\ UNCHANGED <<clientVars, retry, server, repository, registration, hook, services>>

\* sequential mode: the awaited request settles; its result is pushed (or the
\* error rethrown under failFast) and the next request is invoked
SequentialSettle(success) ==
    /\ batch.pc = "sequential"
    /\ LET i == batch.started
           settled == [batch EXCEPT !.state[i] =
                          IF success THEN "resolved" ELSE "rejected"]
       IN  batch' =
              IF ~success /\ batch.options.failFast
              THEN [settled EXCEPT !.pc = "raised"]
              ELSE LET pushed == [settled EXCEPT
                                     !.results = Append(@, BatchResult(i, success))]
                   IN  IF i = batch.n
                       THEN [pushed EXCEPT !.pc = "returned"]
                       ELSE [pushed EXCEPT !.started = i + 1,
                                           !.state[i + 1] = "inflight"]
    /\ UNCHANGED <<clientVars, retry, server, repository, registration, hook, services>>

\* concurrent mode: request i settles; executeWithLimit builds its result and
\* the then-callback pushes it (under failFast a failure rejects the promise
\* and nothing is pushed).  A request settles in a task of its own, after the
\* batch function has run as far as it can.
RequestSettle(i, success) ==
    /\ batch.pc \in {"race", "all", "returned", "raised"}
    /\ batch.options.concurrent
    /\ i \in 1..batch.n
    /\ batch.state[i] = "inflight"
    /\ ~BatchResumable(batch)
    /\ batch' = [batch EXCEPT
           !.state[i] = IF success THEN "resolved" ELSE "rejected",
           !.results = IF ~success /\ batch.options.failFast
                       THEN @ ELSE Append(@, BatchResult(i, success))]
    /\ UNCHANGED <<clientVars, retry, server, repository, registration, hook, services>>

\* `await Promise.race(executing)` resumes: the promise pushed last is spliced
\* out and the loop goes on; a rejected winner is rethrown
RaceResume ==
    /\ batch.pc = "race"
    /\ BatchResumable(batch)
    /\ LET winner == batch.executing[
                        CHOOSE k \in DOMAIN batch.executing :
                           /\ PromiseSettled(batch, batch.executing[k])
                           /\ \A j \in 1..(k - 1) :
                                 ~PromiseSettled(batch, batch.executing[j])]
           promise == batch.started
       IN  batch' =
              IF PromiseRejected(batch, winner)
              THEN [batch EXCEPT !.pc = "raised"]
              ELSE RunLoop([batch EXCEPT
                               !.executing = SpliceOut(@, promise)])
    /\ UNCHANGED <<clientVars, retry, server, repository, registration, hook, services>>

\* `await Promise.all(executing)` resumes: results is returned, or the first
\* rejection rethrown
AllResume ==
    /\ batch.pc = "all"
    /\ BatchResumable(batch)
    /\ batch' = IF \E k \in DOMAIN batch.executing :
                      PromiseRejected(batch, batch.executing[k])
                THEN [batch EXCEPT !.pc = "raised"]
                ELSE [batch EXCEPT !.pc = "returned"]
    /\ UNCHANGED <<clientVars, retry, server, repository, registration, hook, services>>

\* the caller is done with the batch and every request has settled
BatchFinish ==
    /\ batch.pc \in {"returned", "raised"}
    /\ \A i \in 1..batch.n : batch.state[i] # "inflight"
    /\ batch' = IdleBatch
    /\ UNCHANGED <<clientVars, retry, server, repository, registration, hook, services>>

-----------------------------------------------------------------------------
(* user/services/apiClient.ts: UserApiService on the shared client, and the
   backend it talks to *)

\* API_ENDPOINTS.USER_BY_ID(id): `/api/users/${id}`
UserByIdPath(id) == <<"/api/users", "/", id>>

\* UserApiService.getUsers(params): params defaults to {}, an object
GetUsersRequest(pairs, ttl) ==
    [op |-> "get", path |-> <<"/api/users">>, params |-> Params(pairs),
     cache |-> TRUE, cacheTtl |-> ttl, headers |-> EmptyHeaders]

\* UserApiService.getUserById(id)
GetUserByIdRequest(id, ttl) ==
    [op |-> "get", path |-> UserByIdPath(id), params |-> NoParams,
     cache |-> TRUE, cacheTtl |-> ttl, headers |-> EmptyHeaders]

\* the request() call made by updateUser, deleteUser, updateProfile, uploadAvatar
MutationRequest(kind, id) ==
    [op |-> CASE kind = "updateUser" -> "put"
              [] kind = "deleteUser" -> "delete"
              [] kind = "updateProfile" -> "put"
              [] kind = "uploadAvatar" -> "upload",
     path |-> CASE kind = "updateUser" -> UserByIdPath(id)
                [] kind = "deleteUser" -> UserByIdPath(id)
                [] kind = "updateProfile" -> UserByIdPath(id) \o <<"/profile">>
                [] kind = "uploadAvatar" -> UserByIdPath(id) \o <<"/avatar">>,
     params |-> NoParams, cache |-> FALSE, cacheTtl |-> 0, headers |-> EmptyHeaders]

\* UserApiService.clearUserCache(userId): clearCache of the user's path, then
\* clearCache('/api/users')
ClearUserCache(store, userId) ==
    CacheDelete(CacheDelete(store, BaseUrl \o UserByIdPath(userId)),
                BaseUrl \o <<"/api/users">>)

\* updateUser, deleteUser, updateProfile or uploadAvatar for userId, run by
\* caller c: clearUserCache, then request() up to its first suspension
UserMutationStart(c, kind, userId) ==
    /\ call[c].pc = "idle"
    /\ LET req == MutationRequest(kind, userId)
           args == RequestArgs(req, config.defaultHeaders)
           cleared == ClearUserCache(cache, userId)
           intercepted ==
               ApplyRequestInterceptors(
                   [url |-> BaseUrl \o args.url,
                    options |-> RequestOptions(args.options, config.defaultHeaders)],
                   requestInterceptors)
       IN  /\ cache' = cleared
           /\ call' = [call EXCEPT ![c] =
                  [IdleCall EXCEPT !.pc = "fetching",
                                   !.req = req,
                                   !.cacheBefore = cleared,
                                   !.sent = intercepted,
                                   !.requestRuns = 1,
                                   !.timers = 1,
                                   !.timerArmed = TRUE,
                                   !.deadline = now + config.timeout,
                                   !.attempt = 1,
                                   !.fetches = 1]]
    /\ UNCHANGED <<moduleVars, now, config, requestInterceptors, responseInterceptors>>

\* the body the backend sends for the user record at version v
UserBody(v) == <<"{v0}", "{v1}", "{v2}", "{v3}">>[v + 1]

\* the backend: the version of the user record, and per caller the response
\* it has computed for the attempt in flight (NoResponse: none yet)
IdleServer == [version |-> 0, handled |-> [c \in Calls |-> NoResponse]]

\* the backend handles the request of the attempt of call c that is in
\* flight: a GET reads the record, any other method writes a new version;
\* or it fails with a 500 and changes nothing
ServerHandle(c, ok) ==
    /\ call[c].pc = "fetching"
    /\ server.handled[c] = NoResponse
    /\ (ok /\ call[c].sent.options.method # "GET") => server.version < MaxVersion
    /\ LET written == IF call[c].sent.options.method = "GET" \/ ~ok
                      THEN server.version ELSE server.version + 1
       IN  server' = [version |-> written,
                      handled |-> [server.handled EXCEPT ![c] =
                          [status |-> IF ok THEN 200 ELSE 500,
                           ctype |-> "application/json",
                           body |-> UserBody(written),
                           trace |-> <<>>]]]
    /\ UNCHANGED <<clientVars, retry, batch, repository, registration, hook, services>>

\* the attempt the backend answered is over: its response was delivered or lost
ServerForget(c) ==
    /\ call[c].pc # "fetching"
    /\ server.handled[c] # NoResponse
    /\ server' = [server EXCEPT !.handled[c] = NoResponse]
    /\ UNCHANGED <<clientVars, retry, batch, repository, registration, hook, services>>

\* no response of an attempt that is over is left at the backend
ServerSettled ==
    \A c \in Calls : server.handled[c] # NoResponse => call[c].pc = "fetching"

-----------------------------------------------------------------------------
(* user/services/userService.ts: UserService.registerUser on a
   MockUserRepository (user/services/userRepository.ts) *)

Registrations == {1, 2}

\* e-mail addresses as typed by the callers
Emails == {"a@x.io", "A@x.io", "b@x.io"}

\* String.toLowerCase on an e-mail address
ToLowerCase(email) == IF email = "A@x.io" THEN "a@x.io" ELSE email

\* a new MockUserRepository and a new MockAuthService
EmptyRepository == [users |-> <<>>, authUsers |-> {}]

\* MockUserRepository.findByEmail: is there a record with this address,
\* letter case aside
FindByEmail(repo, email) ==
    \E i \in DOMAIN repo.users : ToLowerCase(repo.users[i].email) = ToLowerCase(email)

\* MockUserRepository.create: the record is pushed
Create(repo, email, by) ==
    [repo EXCEPT !.users = Append(@, [email |-> email, createdBy |-> by])]

\* MockAuthService.signUp after its delay: the address is taken when the
\* map of credentials has it as a key
SignUp(repo, email) ==
    IF email \in repo.authUsers
    THEN [error |-> TRUE, repo |-> repo]
    ELSE [error |-> FALSE, repo |-> [repo EXCEPT !.authUsers = @ \cup {email}]]

\* a call of registerUser that has not been made
IdleRegistration ==
    [pc |-> "idle",          \* idle, finding, signingUp, creating, returned
     email |-> "",           \* userData.email
     auth |-> FALSE,         \* the service was built with an authService
     existingUser |-> FALSE, \* const existingUser (truthiness)
     result |-> "none"]      \* none, invalid, user, exists, authError

\* registerUser(userData) up to its first await: data that is not valid is
\* answered with its errors, otherwise findByEmail searches the records
RegisterStart(r, email, auth, valid) ==
    /\ registration[r].pc = "idle"
    /\ Len(repository.users) + Cardinality({q \in Registrations :
                                               registration[q].pc # "idle"}) < MaxUsers
    /\ registration' = [registration EXCEPT ![r] =
           IF valid
           THEN [IdleRegistration EXCEPT !.pc = "finding",
                                         !.email = email,
                                         !.auth = auth,
                                         !.existingUser = FindByEmail(repository, email)]
           ELSE [IdleRegistration EXCEPT !.pc = "returned",
                                         !.email = email,
                                         !.auth = auth,
                                         !.result = "invalid"]]
    /\ UNCHANGED <<clientVars, retry, batch, server, repository, hook, services>>

\* after `await findByEmail`: the 'already exists' error, or signUp is called,
\* or, without an authService, createUserRecord pushes the record
RegisterFound(r) ==
    /\ registration[r].pc = "finding"
    /\ IF registration[r].existingUser
       THEN /\ registration' = [registration EXCEPT ![r].pc = "returned",
                                                    ![r].result = "exists"]
            /\ repository' = repository
       ELSE IF registration[r].auth
       THEN /\ registration' = [registration EXCEPT ![r].pc = "signingUp"]
            /\ repository' = repository
       ELSE /\ registration' = [registration EXCEPT ![r].pc = "creating"]
            /\ repository' = Create(repository, registration[r].email, r)
    /\ UNCHANGED <<clientVars, retry, batch, server, hook, services>>

\* signUp ends its delay, looks the address up and stores the credentials;
\* registerUser returns its error, or createUserRecord pushes the record
RegisterSignedUp(r) ==
    /\ registration[r].pc = "signingUp"
    /\ LET authResult == SignUp(repository, registration[r].email)
       IN  IF authResult.error
           THEN /\ registration' = [registration EXCEPT ![r].pc = "returned",
                                                        ![r].result = "authError"]
                /\ repository' = repository
           ELSE /\ registration' = [registration EXCEPT ![r].pc = "creating"]
                /\ repository' = Create(authResult.repo, registration[r].email, r)
    /\ UNCHANGED <<clientVars, retry, batch, server, hook, services>>

\* after `await createUserRecord`: the user is returned
RegisterCreated(r) ==
    /\ registration[r].pc = "creating"
    /\ registration' = [registration EXCEPT ![r].pc = "returned",
                                            ![r].result = "user"]
    /\ UNCHANGED <<clientVars, retry, batch, server, repository, hook, services>>

\* the caller has taken the result
RegisterFinish(r) ==
    /\ registration[r].pc = "returned"
    /\ registration' = [registration EXCEPT ![r] = IdleRegistration]
    /\ UNCHANGED <<clientVars, retry, batch, server, repository, hook, services>>

-----------------------------------------------------------------------------
(* user/hooks: useUser(userId), one mounted component *)

\* the userId prop: null, or the id of a user
NoUserId == "null"
UserIds == {"1", "2"}

\* a mounted hook before its first effect has run with a userId
IdleHook ==
    [userId |-> NoUserId,   \* the prop of the last render
     user |-> NoUserId,     \* state `user`: null, or the user with that id
     loading |-> FALSE,     \* state `loading`
     error |-> FALSE,       \* state `error` is set
     inFlight |-> <<>>,     \* the ids of the fetchUser calls awaiting getUserById
     started |-> 0,         \* number of fetchUser calls made
     current |-> "none"]    \* outcome of the last fetch made for the prop: none, pending, ok, failed

\* fetchUser(id) up to its await: setLoading(true), setError(null), getUserById(id)
FetchUser(h, id) ==
    [h EXCEPT !.loading = TRUE,
              !.error = FALSE,
              !.inFlight = Append(@, id),
              !.started = @ + 1,
              !.current = "pending"]

\* the component is rendered with a new userId and the effect runs
SetUserId(id) ==
    /\ id # hook.userId
    /\ hook.started < MaxFetches
    /\ hook' = IF id # NoUserId
               THEN FetchUser([hook EXCEPT !.userId = id], id)
               ELSE [hook EXCEPT !.userId = id,
                                 !.user = NoUserId,
                                 !.loading = FALSE,
                                 !.current = "none"]
    /\ UNCHANGED <<clientVars, retry, batch, server, repository, registration, services>>

\* refresh(): fetchUser(userId) when there is a userId
Refresh ==
    /\ hook.started < MaxFetches
    /\ hook.userId # NoUserId
    /\ hook' = FetchUser(hook, hook.userId)
    /\ UNCHANGED <<clientVars, retry, batch, server, repository, registration, services>>

\* the k-th fetch in flight is the last one made for the prop of the last render
IsCurrentFetch(h, k) ==
    /\ h.inFlight[k] = h.userId
    /\ \A j \in (k + 1)..Len(h.inFlight) : h.inFlight[j] # h.userId

RemoveAt(seq, k) == SubSeq(seq, 1, k - 1) \o SubSeq(seq, k + 1, Len(seq))

\* getUserById of the k-th fetch in flight settles: setUser(userData) or
\* setError(message), then setLoading(false)
FetchSettle(k, ok) ==
    /\ k \in DOMAIN hook.inFlight
    /\ hook' = [hook EXCEPT
           !.user = IF ok THEN hook.inFlight[k] ELSE @,
           !.error = IF ok THEN @ ELSE TRUE,
           !.loading = FALSE,
           !.inFlight = RemoveAt(@, k),
           !.current = IF IsCurrentFetch(hook, k)
                       THEN (IF ok THEN "ok" ELSE "failed") ELSE @]
    /\ UNCHANGED <<clientVars, retry, batch, server, repository, registration, services>>

-----------------------------------------------------------------------------
(* user/services/index.ts: the default services and initializeServices *)

\* a default that was never assigned (undefined)
Unassigned == 0

NoServices ==
    [defaultUserRepository |-> Unassigned,  \* the call of initializeServices
     defaultAuthService |-> Unassigned,     \* that assigned each default
     defaultUserService |-> Unassigned,
     calls |-> 0,                           \* calls of initializeServices made
     threw |-> FALSE,                       \* the last call threw
     got |-> <<>>]                          \* the last getter called and what
                                            \* it returned or that it threw

ServiceConfigs == [prismaClient : BOOLEAN, supabaseClient : BOOLEAN, mockMode : BOOLEAN]

\* initializeServices(config): the defaults as the call leaves them, the
\* assignments made before a throw included
InitializeServices(cfg) ==
    /\ services.calls < MaxInitializations
    /\ LET n == services.calls + 1
           counted == [services EXCEPT !.calls = n, !.threw = FALSE]
       IN  services' =
              IF cfg.mockMode \/ (~cfg.prismaClient /\ ~cfg.supabaseClient)
              THEN [counted EXCEPT !.defaultUserService = n,
                                   !.defaultAuthService = n,
                                   !.defaultUserRepository = n]
              ELSE IF ~cfg.prismaClient
              THEN [counted EXCEPT !.threw = TRUE]
              ELSE IF ~cfg.supabaseClient
              THEN [counted EXCEPT !.defaultUserRepository = n, !.threw = TRUE]
              ELSE [counted EXCEPT !.defaultUserRepository = n,
                                   !.defaultAuthService = n,
                                   !.defaultUserService = n]
    /\ UNCHANGED <<clientVars, retry, batch, server, repository, registration, hook>>

\* getUserRepository / getAuthService / getUserService throw
\* 'Services not initialized' when the default is undefined
GetterThrows(default) == default = Unassigned

Getters == {"defaultUserRepository", "defaultAuthService", "defaultUserService"}

\* a caller calls one of the three getters
GetService(getter) ==
    /\ services' = [services EXCEPT !.got =
           <<getter, IF GetterThrows(services[getter])
                     THEN "Services not initialized"
                     ELSE services[getter]>>]
    /\ UNCHANGED <<clientVars, retry, batch, server, repository, registration, hook>>

\* nothing of the user module outside the client is running
ModuleIdle ==
    /\ retry = IdleRetry
    /\ batch = IdleBatch
    /\ server = IdleServer
    /\ repository = EmptyRepository
    /\ registration = [r \in Registrations |-> IdleRegistration]
    /\ hook = IdleHook
    /\ services = NoServices

\* what happens to a call once it has been started
CallStep(c, responses) ==
    \/ \E response \in responses : FetchResolve(c, response)
    \/ FetchReject(c)
    \/ TimeoutFire(c)
    \/ AbortReject(c)
    \/ ErrBodyRead(c)
    \/ SleepWake(c)
    \/ Decode(c)
    \/ Finish(c)

RetryConfigOf(maxAttempts, initialDelay, maxDelay, backoffFactor) ==
    [maxAttempts |-> maxAttempts, initialDelay |-> initialDelay,
     maxDelay |-> maxDelay, backoffFactor |-> backoffFactor]

UsersPath == <<"/api/users">>

(* Spec: one caller making cacheable and plain GETs, one after the other, on a
   client built as createApiClient builds it (one request interceptor, one
   response interceptor) *)

QueryChoices ==
    {Params(<<"role=COACH", "page=2">>),
     Params(<<"page=2", "role=COACH">>)}

CacheOptionChoices ==
    {[cache |-> FALSE, cacheTtl |-> 0],
     [cache |-> TRUE, cacheTtl |-> 0],
     [cache |-> TRUE, cacheTtl |-> 1],
     [cache |-> TRUE, cacheTtl |-> 2]}

GetRequests ==
    {[op |-> "get", path |-> UsersPath, params |-> q,
      cache |-> o.cache, cacheTtl |-> o.cacheTtl, headers |-> EmptyHeaders] :
        q \in QueryChoices, o \in CacheOptionChoices}

Init ==
    /\ now = 0
    /\ config = [timeout |-> 2, defaultHeaders |-> DefaultHeaders,
                 retryConfig |-> RetryConfigOf(2, 1, 1, 2)]
    /\ cache = [k \in {} |-> Null]
    /\ requestInterceptors = <<"A">>
    /\ responseInterceptors = <<"C">>
    /\ call = [c \in Calls |-> IdleCall]
    /\ ModuleIdle

Next ==
    \/ \E req \in GetRequests : CallStart(1, req)
    \/ CallStep(1, Responses)
    \/ Tick

Spec == Init /\ [][Next]_vars

(* RetrySpec: one caller making POSTs, one after the other, on clients
   constructed with each retry configuration of RetryConfigs; the transport
   may answer any response, fail, or never answer *)

\* (1, 5, 2) is the default retryConfig (1000, 5000, 2) counted in seconds
RetryConfigs ==
    {RetryConfigOf(m, d, x, f) :
        m \in 1..MaxAttemptsBound, d \in {1, 2}, x \in {3, 5}, f \in {1, 2}}

PostRequests ==
    {[op |-> "post", path |-> UsersPath, params |-> NoParams,
      cache |-> FALSE, cacheTtl |-> 0, headers |-> EmptyHeaders]}

InitRetry ==
    /\ now = 0
    /\ \E rc \in RetryConfigs :
          config = [timeout |-> 2, defaultHeaders |-> DefaultHeaders, retryConfig |-> rc]
    /\ cache = [k \in {} |-> Null]
    /\ requestInterceptors = <<>>
    /\ responseInterceptors = <<>>
    /\ call = [c \in Calls |-> IdleCall]
    /\ ModuleIdle

NextRetry ==
    \/ \E req \in PostRequests : CallStart(1, req)
    \/ CallStep(1, Responses)
    \/ Tick

RetrySpec == InitRetry /\ [][NextRetry]_vars

(* PipelineSpec: a caller that registers interceptors and makes uncached
   GETs, POSTs with and without headers of their own, and uploads, on a client
   constructed with or without a JSON Content-Type among its default headers *)

DefaultHeaderChoices ==
    {DefaultHeaders, [n \in {"Accept"} |-> "application/json"]}

CallHeaderChoices ==
    {EmptyHeaders,
     [n \in {"Content-Type", "X-Request"} |->
        IF n = "Content-Type" THEN "text/plain" ELSE "1"]}

PipelineRequests ==
    {[op |-> "get", path |-> UsersPath, params |-> NoParams,
      cache |-> FALSE, cacheTtl |-> 0, headers |-> EmptyHeaders],
     [op |-> "upload", path |-> <<"/api/users/1/avatar">>, params |-> NoParams,
      cache |-> FALSE, cacheTtl |-> 0, headers |-> EmptyHeaders]}
    \cup
    {[op |-> "post", path |-> UsersPath, params |-> NoParams,
      cache |-> FALSE, cacheTtl |-> 0, headers |-> h] : h \in CallHeaderChoices}

\* the server answers with a JSON object, under any status and content type
PipelineResponses == {r \in Responses : r.body = "{u}"}

InitPipeline ==
    /\ now = 0
    /\ \E dh \in DefaultHeaderChoices :
          config = [timeout |-> 2, defaultHeaders |-> dh,
                    retryConfig |-> RetryConfigOf(2, 1, 1, 2)]
    /\ cache = [k \in {} |-> Null]
    /\ requestInterceptors = <<>>
    /\ responseInterceptors = <<>>
    /\ call = [c \in Calls |-> IdleCall]
    /\ ModuleIdle

NextPipeline ==
    \/ \E i \in RequestInterceptorIds : AddRequestInterceptor(i)
    \/ \E i \in ResponseInterceptorIds : AddResponseInterceptor(i)
    \/ \E req \in PipelineRequests : CallStart(1, req)
    \/ CallStep(1, PipelineResponses)
    \/ Tick

PipelineSpec == InitPipeline /\ [][NextPipeline]_vars

-----------------------------------------------------------------------------
(* Properties of the cache store (Spec) *)

\* request(): the cache key of a call, this.getCacheKey(url, null)
CacheKeyOf(req) == GetCacheKey(RequestArgs(req, DefaultHeaders).url, NoParams)

\* call c enters request() as a GET that opted into caching
StartsCachedGet(c) ==
    /\ call[c].pc = "idle"
    /\ call'[c].pc # "idle"
    /\ call'[c].req.op = "get"
    /\ call'[c].req.cache

SameQuery(p, q) ==
    /\ p.given = q.given
    /\ Len(p.pairs) = Len(q.pairs)
    /\ {p.pairs[i] : i \in DOMAIN p.pairs} = {q.pairs[i] : i \in DOMAIN q.pairs}

\* C2: a response cached by a get with one ordering of the query parameters is
\* a cache hit for a get of the same path with the same parameters in any
\* other ordering (the two calls use the same cache key).
C2_OrderIndependentKey ==
    [][\A c \in Calls :
        (StartsCachedGet(c) /\ call'[c].req.cacheTtl > 0)
        => \A q \in QueryChoices :
              LET other == CacheKeyOf([call'[c].req EXCEPT !.params = q])
              IN  (/\ SameQuery(q, call'[c].req.params)
                   /\ other \in DOMAIN cache
                   /\ Truthy(cache[other].data)
                   /\ now - cache[other].timestamp < call'[c].req.cacheTtl)
                  => /\ call'[c].pc = "returned"
                     /\ call'[c].outcome.value = cache[other].data]_vars

\* C3: once a get with cache:true and cacheTtl T has stored a body, an identical
\* call made while less than T has elapsed returns the stored body with no
\* network call, no timer and no interceptor run, whatever the body is; an
\* identical call made after T has elapsed issues a network call.
C3_HitUntilTtl ==
    [][\A c \in Calls :
        (/\ StartsCachedGet(c)
         /\ call'[c].req.cacheTtl > 0
         /\ CacheKeyOf(call'[c].req) \in DOMAIN cache)
        => LET entry == cache[CacheKeyOf(call'[c].req)]
           IN  /\ now - entry.timestamp < call'[c].req.cacheTtl
                  => /\ call'[c].pc = "returned"
                     /\ call'[c].outcome.value = entry.data
                     /\ call'[c].fetches = 0
                     /\ ~call'[c].timerArmed
                     /\ call'[c].sent = NoSent
               /\ now - entry.timestamp > call'[c].req.cacheTtl
                  => /\ call'[c].pc = "fetching"
                     /\ call'[c].fetches = 1]_vars

-----------------------------------------------------------------------------
(* Properties of the retry policy (RetrySpec) *)

\* C4: an operation that fails on every attempt is invoked exactly
\* maxAttempts times, never more, and the error raised is the one of the last
\* attempt; an operation that first succeeds on attempt k is invoked exactly k
\* times and its result is returned.
C4_RetryBound ==
    \A c \in Calls :
        LET cr == call[c]
            m == config.retryConfig.maxAttempts
        IN  /\ cr.fetches <= m
            /\ cr.fetches = cr.attempt
            /\ (cr.pc = "raised" /\ cr.outcome.error.kind # "decode")
               => /\ cr.fetches = m
                  /\ Len(cr.sleeps) = m - 1
                  /\ cr.outcome.error.attempt = m
                  /\ cr.outcome.error = cr.lastError
            /\ (\/ cr.pc \in {"decoding", "returned"}
                \/ (cr.pc = "raised" /\ cr.outcome.error.kind = "decode"))
               => cr.fetches = Len(cr.sleeps) + 1
            /\ cr.pc = "decoding" => Ok(cr.resp.status)

\* a call that failed on each of three allowed attempts
C4_Witness ==
    \E c \in Calls :
        /\ config.retryConfig.maxAttempts = 3
        /\ call[c].pc = "raised"
        /\ call[c].fetches = 3
        /\ call[c].outcome.error.attempt = 3

\* a call whose operation first succeeded on its second attempt
C4_WitnessSuccess ==
    \E c \in Calls :
        /\ call[c].pc = "returned"
        /\ call[c].fetches = 2
        /\ Len(call[c].sleeps) = 1

\* C5: the sleep between failed attempt n and attempt n+1 is
\* min(initialDelay * backoffFactor^(n-1), maxDelay), never above maxDelay
\* (1000 then 2000 for the default configuration, here counted in seconds), and
\* no sleep follows the failure of the last allowed attempt.
C5_BackoffDelays ==
    \A c \in Calls :
        LET cr == call[c]
            rc == config.retryConfig
        IN  /\ \A n \in 1..Len(cr.sleeps) :
                  /\ cr.sleeps[n] =
                        Min(rc.initialDelay * Pow(rc.backoffFactor, n - 1), rc.maxDelay)
                  /\ cr.sleeps[n] <= rc.maxDelay
            /\ Len(cr.sleeps) <= rc.maxAttempts - 1
            /\ cr.pc = "sleeping"
               => /\ Len(cr.sleeps) = cr.attempt
                  /\ cr.wakeAt >= now
                  /\ cr.wakeAt - now <= cr.sleeps[cr.attempt]
            /\ cr.pc = "raised" /\ cr.outcome.error.kind # "decode"
               => Len(cr.sleeps) = rc.maxAttempts - 1
            /\ (rc.initialDelay = 1 /\ rc.backoffFactor = 2 /\ rc.maxDelay = 5)
               => /\ Len(cr.sleeps) >= 1 => cr.sleeps[1] = 1
                  /\ Len(cr.sleeps) >= 2 => cr.sleeps[2] = 2

\* the default configuration: three failed attempts, delays 1 then 2, no third
C5_Witness ==
    \E c \in Calls :
        /\ config.retryConfig = RetryConfigOf(3, 1, 5, 2)
        /\ call[c].pc = "raised"
        /\ call[c].sleeps = <<1, 2>>

\* a delay capped at maxDelay
C5_WitnessCapped ==
    \E c \in Calls :
        /\ config.retryConfig = RetryConfigOf(3, 2, 3, 2)
        /\ call[c].sleeps = <<2, 3>>

\* C8: a 4xx response is never retried: the call raises at once, having made
\* no attempt after the one that received it.
C8_NoRetryOn4xx ==
    \A c \in Calls :
        (/\ call[c].lastError.kind = "http"
         /\ call[c].lastError.status >= 400
         /\ call[c].lastError.status <= 499)
        => /\ call[c].pc = "raised"
           /\ call[c].fetches = call[c].lastError.attempt

\* C9: once the timeout of a call has fired and aborted it, the call starts no
\* further backoff sleep and invokes the transport no further.
C9_AbortStopsRetries ==
    [][\A c \in Calls :
        (call[c].aborted /\ call'[c].pc # "idle")
        => /\ call'[c].sleeps = call[c].sleeps
           /\ call'[c].fetches = call[c].fetches]_vars

\* C10: on every network attempt of a call the timeout still guards the
\* transport: while an attempt is in flight the timeout timer is pending, or
\* it has fired and aborted the call.
C10_EveryAttemptTimed ==
    \A c \in Calls :
        call[c].pc = "fetching" => (call[c].timerArmed \/ call[c].aborted)

-----------------------------------------------------------------------------
(* Properties of the interceptor pipeline and the headers (PipelineSpec) *)

\* C6: the request handed to the transport went through the request
\* interceptors in registration order, each applied to the output of the one
\* before, and the response that is classified went through the response
\* interceptors in registration order.
C6_InterceptorOrder ==
    [][\A c \in Calls :
        /\ (call[c].pc = "idle" /\ call'[c].pc = "fetching")
           => /\ call'[c].sent.options.trace = requestInterceptors
              /\ call'[c].sent.url = BaseUrl \o call'[c].req.path
        /\ (call[c].pc = "fetching" /\ call'[c].pc \in {"decoding", "errbody"})
           => call'[c].resp.trace = responseInterceptors]_vars

\* request interceptors [A, B] and response interceptors [C, D] were applied
C6_Witness ==
    \E c \in Calls :
        /\ call[c].pc \in {"decoding", "errbody"}
        /\ call[c].sent.options.trace = <<"A", "B">>
        /\ call[c].resp.trace = <<"C", "D">>

\* C7: the request that upload hands to the transport carries no
\* Content-Type: application/json header.
C7_UploadWithoutJsonContentType ==
    \A c \in Calls :
        (call[c].req.op = "upload" /\ call[c].fetches > 0)
        => ~(/\ "Content-Type" \in DOMAIN call[c].sent.options.headers
             /\ call[c].sent.options.headers["Content-Type"] = "application/json")

-----------------------------------------------------------------------------
(* ConcSpec: two callers on one client, each making the same cacheable GET
   whenever it likes, so that calls overlap in every way; both calls have the
   client's timeout and the one started first has the earlier deadline *)

ConcRequests ==
    {[op |-> "get", path |-> UsersPath, params |-> NoParams,
      cache |-> TRUE, cacheTtl |-> 2, headers |-> EmptyHeaders]}

\* the server answers a JSON object, as JSON or as text, with status 200 or 500
ConcResponses == {r \in Responses : r.body = "{u}" /\ r.status \in {200, 500}}

InitConc ==
    /\ now = 0
    /\ config = [timeout |-> 2, defaultHeaders |-> DefaultHeaders,
                 retryConfig |-> RetryConfigOf(2, 1, 1, 2)]
    /\ cache = [k \in {} |-> Null]
    /\ requestInterceptors = <<>>
    /\ responseInterceptors = <<>>
    /\ call = [c \in Calls |-> IdleCall]
    /\ ModuleIdle

NextConc ==
    \/ \E c \in Calls, req \in ConcRequests : CallStart(c, req)
    \/ \E c \in Calls : CallStep(c, ConcResponses)
    \/ Tick

ConcSpec == InitConc /\ [][NextConc]_vars

\* C11: the firing of one call's timeout aborts that call only: a call is
\* aborted only by its own timer, when that timer is due, and the step leaves
\* the record of every other call (signal, timer, position, outcome) as it was;
\* every step of the model changes the record of at most one call.
C11_TimeoutIsolation ==
    [][\A c \in Calls :
        /\ (~call[c].aborted /\ call'[c].aborted)
           => /\ call[c].timerArmed
              /\ call[c].deadline <= now
              /\ \A d \in Calls \ {c} : call'[d] = call[d]
        /\ call'[c] # call[c] => \A d \in Calls \ {c} : call'[d] = call[d]]_vars

\* the earlier deadline has fired while the other call is in flight, its
\* timer still pending and its signal not aborted
C11_Witness ==
    \E c, d \in Calls :
        /\ c # d
        /\ call[c].aborted
        /\ call[c].pc = "fetching"
        /\ call[d].pc = "fetching"
        /\ call[d].timerArmed
        /\ call[d].deadline > now
        /\ ~call[d].aborted

-----------------------------------------------------------------------------
(* InvalidateSpec: one caller making cacheable GETs of the user list (with and
   without a page parameter) and of the user statistics, and clearing the
   cache, without argument or for one of the two paths *)

StatsPath == <<"/api/users", "/stats">>

InvalidateRequests ==
    {[op |-> "get", path |-> UsersPath, params |-> q,
      cache |-> TRUE, cacheTtl |-> 2, headers |-> EmptyHeaders] :
        q \in {NoParams, Params(<<"page=1">>), Params(<<"page=2">>)}}
    \cup
    {[op |-> "get", path |-> StatsPath, params |-> NoParams,
      cache |-> TRUE, cacheTtl |-> 2, headers |-> EmptyHeaders]}

\* what clearCache is called with: nothing (the empty url), or a path
ClearArguments == {<<>>, UsersPath, StatsPath}

\* the server answers a JSON object, with status 200 or 500
InvalidateResponses ==
    {r \in Responses :
        r.body = "{u}" /\ r.ctype = "application/json" /\ r.status \in {200, 500}}

InitInvalidate ==
    /\ now = 0
    /\ config = [timeout |-> 2, defaultHeaders |-> DefaultHeaders,
                 retryConfig |-> RetryConfigOf(2, 1, 1, 2)]
    /\ cache = [k \in {} |-> Null]
    /\ requestInterceptors = <<>>
    /\ responseInterceptors = <<>>
    /\ call = [c \in Calls |-> IdleCall]
    /\ ModuleIdle

NextInvalidate ==
    \/ \E req \in InvalidateRequests : CallStart(1, req)
    \/ \E url \in ClearArguments : ClearCache(1, url)
    \/ CallStep(1, InvalidateResponses)
    \/ Tick

InvalidateSpec == InitInvalidate /\ [][NextInvalidate]_vars

\* String.startsWith on urls
StartsWith(url, prefix) ==
    /\ Len(prefix) <= Len(url)
    /\ SubSeq(url, 1, Len(prefix)) = prefix

\* C12: clearCache() leaves the cache empty; clearCache(path) removes every
\* entry whose key starts with the base address plus path (every cached
\* query-parameter variant of the path) and leaves every other entry unchanged.
C12_ClearByPrefix ==
    [][\A c \in Calls :
        (call[c].pc = "idle" /\ call'[c].req.op = "clearCache")
        => IF call'[c].req.path = <<>>
           THEN DOMAIN cache' = {}
           ELSE /\ DOMAIN cache' \subseteq DOMAIN cache
                /\ \A k \in DOMAIN cache :
                      IF StartsWith(k, BaseUrl \o call'[c].req.path)
                      THEN k \notin DOMAIN cache'
                      ELSE k \in DOMAIN cache' /\ cache'[k] = cache[k]]_vars

\* C13 as stated: a GET that opted into caching with cacheTtl unspecified or
\* zero is not answered from the cache, whatever the cache holds for its key:
\* it goes to the network.
C13_NoTtlGoesToNetwork ==
    [][\A c \in Calls :
        (StartsCachedGet(c) /\ call'[c].req.cacheTtl = 0)
        => /\ call'[c].pc = "fetching"
           /\ call'[c].fetches = 1]_vars

\* C13 as amended: a GET that opted into caching with cacheTtl unspecified or
\* zero reads the cache without any expiry test.  The read changes nothing in
\* the cache; when the key holds a truthy value the call is answered with it,
\* whatever its age and with no network activity; otherwise it goes to the
\* network.
C13_NoTtlNeverExpires ==
    [][\A c \in Calls :
        (StartsCachedGet(c) /\ call'[c].req.cacheTtl = 0)
        => LET key == CacheKeyOf(call'[c].req)
           IN  /\ cache' = cache
               /\ IF key \in DOMAIN cache /\ Truthy(cache[key].data)
                  THEN /\ call'[c].pc = "returned"
                       /\ call'[c].fetches = 0
                       /\ call'[c].outcome.kind = "value"
                       /\ call'[c].outcome.value = cache[key].data
                  ELSE /\ call'[c].pc = "fetching"
                       /\ call'[c].fetches = 1]_vars

\* a call without ttl that has just been answered from an entry older than
\* every ttl a caller of the specification uses
C13_Witness ==
    \E c \in Calls :
        /\ call[c].pc = "returned"
        /\ call[c].fetches = 0
        /\ call[c].req.op = "get"
        /\ call[c].req.cache
        /\ call[c].req.cacheTtl = 0
        /\ CacheKeyOf(call[c].req) \in DOMAIN cache
        /\ now - cache[CacheKeyOf(call[c].req)].timestamp > 2

\* C14: a call that reaches the network arms exactly one timeout timer (a
\* call answered from the cache arms none), and on every path the timer is no
\* longer armed once the call has returned or raised.
C14_OneTimerCleared ==
    \A c \in Calls :
        /\ call[c].timers = (IF call[c].fetches > 0 THEN 1 ELSE 0)
        /\ call[c].pc \in {"returned", "raised"} => ~call[c].timerArmed

\* a call that raised after a retry while its timer had not fired: the timer
\* was pending when the last attempt failed
C14_Witness ==
    \E c \in Calls :
        /\ call[c].pc = "raised"
        /\ call[c].fetches >= 2
        /\ call[c].timers = 1
        /\ ~call[c].aborted
        /\ call[c].outcome.error.kind = "network"

\* C15 as stated: a call whose attempts all failed, or whose body did not
\* decode, raises and returns no value, and the cache store is exactly as it
\* was before the call.
C15_FailedLeavesCacheExact ==
    \A c \in Calls :
        call[c].pc = "raised"
        => /\ call[c].outcome.kind = "error"
           /\ call[c].outcome.value = Null
           /\ cache = call[c].cacheBefore

\* C15 as amended: a call raises only after its last allowed attempt failed or
\* its body did not decode, and returns no value; it never creates or
\* overwrites a cache entry.  The one change it can make to the cache store is
\* the removal, by the cache read at its entry, of the entry of its own key
\* when that entry had expired for the call's ttl.
C15_FailedNeverWrites ==
    \A c \in Calls :
        call[c].pc = "raised"
        => /\ call[c].outcome.kind = "error"
           /\ call[c].outcome.value = Null
           /\ \/ call[c].attempt = config.retryConfig.maxAttempts
              \/ call[c].outcome.error.kind = "decode"
           /\ \A k \in DOMAIN cache :
                 k \in DOMAIN call[c].cacheBefore /\ cache[k] = call[c].cacheBefore[k]
           /\ \A k \in DOMAIN call[c].cacheBefore \ DOMAIN cache :
                 /\ call[c].req.op = "get"
                 /\ call[c].req.cache
                 /\ call[c].req.cacheTtl > 0
                 /\ k = CacheKeyOf(call[c].req)
                 /\ now - call[c].cacheBefore[k].timestamp > call[c].req.cacheTtl

\* a cacheable GET that found its entry expired, removed it and then failed
C15_Witness ==
    \E c \in Calls :
        /\ call[c].pc = "raised"
        /\ call[c].req.cache
        /\ CacheKeyOf(call[c].req) \in DOMAIN call[c].cacheBefore
        /\ CacheKeyOf(call[c].req) \notin DOMAIN cache

\* a cacheable GET that failed while its entry was still in the cache
C15_WitnessKept ==
    \E c \in Calls :
        /\ call[c].pc = "raised"
        /\ call[c].req.cache
        /\ CacheKeyOf(call[c].req) \in DOMAIN cache
        /\ cache = call[c].cacheBefore

-----------------------------------------------------------------------------
(* ErrorSpec: one caller making POSTs to a server whose bodies are empty, a
   JSON object or the JSON value null *)

ErrorBodies == Bodies \cup {"null"}

ErrorResponses ==
    [status : Statuses, ctype : ContentTypes, body : ErrorBodies, trace : {<<>>}]

NextError ==
    \/ \E req \in PostRequests : CallStart(1, req)
    \/ CallStep(1, ErrorResponses)
    \/ Tick

ErrorSpec == InitInvalidate /\ [][NextError]_vars

\* C16: when the response of the last attempt of a call has a non-2xx status,
\* the call raises an error that carries the numeric status of that response
\* and its body: the JSON-decoded body when the body is valid JSON, otherwise
\* the raw text.
C16_ErrorCarriesStatusAndBody ==
    [][\A c \in Calls :
        (call[c].pc = "errbody" /\ call'[c].pc = "raised")
        => /\ call'[c].outcome.kind = "error"
           /\ call'[c].outcome.error.status = call[c].resp.status
           /\ IF JsonValid(call[c].resp.body)
              THEN call'[c].outcome.error.body = JsonValue(call[c].resp.body)
              ELSE call'[c].outcome.error.body.v = call[c].resp.body]_vars

-----------------------------------------------------------------------------
(* FrameSpec: one caller using every verb helper on the user list, one call
   after the other: GETs with and without caching, POST, PUT, PATCH, DELETE
   and upload *)

FrameRequests ==
    {[op |-> o, path |-> UsersPath, params |-> NoParams,
      cache |-> FALSE, cacheTtl |-> 0, headers |-> EmptyHeaders] :
        o \in {"get", "post", "put", "patch", "delete", "upload"}}
    \cup
    {[op |-> "get", path |-> UsersPath, params |-> NoParams,
      cache |-> TRUE, cacheTtl |-> 2, headers |-> EmptyHeaders]}

NextFrame ==
    \/ \E req \in FrameRequests : CallStart(1, req)
    \/ CallStep(1, ConcResponses)
    \/ Tick

FrameSpec == InitInvalidate /\ [][NextFrame]_vars

\* call c is a GET that opted into caching
OptedIn(c) == call[c].req.op = "get" /\ call[c].req.cache

\* C17: only GETs that opted into caching read the cache, and only they write
\* it, after a successful response; every other call (POST, PUT, PATCH, DELETE,
\* upload, GET without cache:true) leaves the cache as it found it; a call
\* reads the cache at most once and writes it at most once.
C17_CacheFrame ==
    \A c \in Calls :
        call[c].pc # "idle"
        => /\ call[c].cacheReads = (IF OptedIn(c) THEN 1 ELSE 0)
           /\ call[c].cacheWrites <= 1
           /\ call[c].cacheWrites = 1
              => OptedIn(c) /\ call[c].pc = "returned" /\ call[c].fetches > 0
           /\ ~OptedIn(c) => call[c].cacheWrites = 0 /\ cache = call[c].cacheBefore

\* a GET without cache:true that returned from the network while the cache
\* holds an entry for its address, which it neither read nor replaced
C17_Witness ==
    \E c \in Calls :
        /\ call[c].pc = "returned"
        /\ call[c].req.op = "get"
        /\ ~call[c].req.cache
        /\ call[c].fetches > 0
        /\ CacheKeyOf(call[c].req) \in DOMAIN cache
        /\ cache[CacheKeyOf(call[c].req)].timestamp < now

\* a PUT that returned while the cache holds an entry
C17_WitnessPut ==
    \E c \in Calls :
        /\ call[c].pc = "returned"
        /\ call[c].req.op = "put"
        /\ DOMAIN cache # {}

-----------------------------------------------------------------------------
(* Properties of the header merge (PipelineSpec) *)

\* the headers option that the verb helper of call c passed to request()
PerCallHeaders(c) == RequestArgs(call[c].req, config.defaultHeaders).options.headers

-----------------------------------------------------------------------------
(* Properties of overlapping cacheable GETs (ConcSpec) *)

\* C19: two cacheable GETs for the same key that overlap may both miss and both
\* store; each store replaces whatever entry the key has by the body the
\* storing call returns and the time of the store, so the entry left is that of
\* the call that stored last; storing changes no other entry and nothing of
\* the other call.
C19_LastWriteWins ==
    [][\A c \in Calls :
        (call[c].pc = "decoding" /\ call'[c].pc = "returned" /\ OptedIn(c))
        => LET key == CacheKeyOf(call[c].req)
           IN  /\ DOMAIN cache' = DOMAIN cache \cup {key}
               /\ cache'[key] = [data |-> call'[c].outcome.value, timestamp |-> now]
               /\ \A k \in DOMAIN cache \ {key} : cache'[k] = cache[k]
               /\ \A d \in Calls \ {c} : call'[d] = call[d]]_vars

\* both calls missed, both went to the network once and returned different
\* bodies; the entry is the one of the call that stored last
C19_Witness ==
    \E c, d \in Calls :
        /\ c # d
        /\ call[c].pc = "returned" /\ call[d].pc = "returned"
        /\ call[c].fetches = 1 /\ call[d].fetches = 1
        /\ call[c].cacheWrites = 1 /\ call[d].cacheWrites = 1
        /\ CacheKeyOf(call[c].req) = CacheKeyOf(call[d].req)
        /\ call[c].outcome.value # call[d].outcome.value
        /\ cache[CacheKeyOf(call[d].req)].data = call[d].outcome.value

-----------------------------------------------------------------------------
(* Properties of the interceptor chains over a whole call (Spec) *)

\* C20: within one call that reaches the network the request-interceptor chain
\* runs exactly once and the response-interceptor chain runs at most once
\* (exactly once when a response is being classified), so the side effect of
\* an interceptor happens at most once per call.
C20_ChainsRunOnce ==
    \A c \in Calls :
        call[c].fetches > 0
        => /\ call[c].requestRuns = 1
           /\ call[c].responseRuns <= 1
           /\ call[c].pc \in {"decoding", "errbody"} => call[c].responseRuns = 1

-----------------------------------------------------------------------------
(* WithRetrySpec: withRetry run over every retry configuration of the bounds,
   on an operation that resolves or rejects with the errors apiRequest and
   other operations throw *)

WithRetryConfigs ==
    [maxAttempts : 1..MaxAttemptsBound, initialDelay : {1, 2, 3},
     maxDelay : {2, 4}, backoffFactor : {1, 2}]

OperationErrors ==
    {ParsedApiError(404), ParsedApiError(500), FetchFailure,
     ResponseError(400), ResponseError(503)}

NextWithRetry ==
    \/ \E retryConfig \in WithRetryConfigs : WithRetryStart(retryConfig)
    \/ OperationResolve
    \/ \E error \in OperationErrors : OperationReject(error)
    \/ RetrySleepEnd
    \/ RetryFinish

WithRetrySpec == InitInvalidate /\ [][NextWithRetry]_vars

\* C21: with the default retry condition, when the operation fails with the
\* error apiRequest builds for a 4xx response, withRetry raises that error at
\* once: no sleep follows and the operation is not invoked again.
C21_ApiError4xxNotRetried ==
    [][(/\ retry.pc = "running"
        /\ retry'.pc \in {"sleeping", "raised"}
        /\ retry'.lastError.kind = "api"
        /\ retry'.lastError.status \in 400..499)
       => /\ retry'.pc = "raised"
          /\ retry'.sleeps = retry.sleeps
          /\ retry'.invocations = retry.invocations]_vars

\* C26: withRetry follows the backoff schedule of ApiClient.executeWithRetry:
\* for every configuration, the sleep after failed attempt n is
\* min(initialDelay * backoffFactor^(n-1), maxDelay), also when initialDelay
\* is greater than maxDelay.
C26_SameBackoffSchedule ==
    \A n \in DOMAIN retry.sleeps :
        /\ retry.sleeps[n] =
              Min(retry.config.initialDelay * Pow(retry.config.backoffFactor, n - 1),
                  retry.config.maxDelay)
        /\ retry.sleeps[n] = BackoffDelay(retry.config, n)

-----------------------------------------------------------------------------
(* BatchSpec: batchRequests run on up to MaxRequests requests, in sequential
   and in concurrent mode, with every maxConcurrency of the bounds and with
   failFast on and off; the requests settle in any order *)

BatchOptions ==
    [concurrent : BOOLEAN, maxConcurrency : 1..MaxConcurrencyBound, failFast : BOOLEAN]

NextBatch ==
    \/ \E n \in 0..MaxRequests, options \in BatchOptions : BatchStart(n, options)
    \/ \E success \in BOOLEAN : SequentialSettle(success)
    \/ \E i \in 1..MaxRequests, success \in BOOLEAN : RequestSettle(i, success)
    \/ RaceResume
    \/ AllResume
    \/ BatchFinish

BatchSpec == InitInvalidate /\ [][NextBatch]_vars

\* the requests that were started and have not settled
InFlight(b) == {i \in 1..b.n : b.state[i] = "inflight"}

\* C22: in concurrent mode, never more than maxConcurrency requests are
\* started and not yet settled.
C22_ConcurrencyLimit ==
    batch.options.concurrent
    => Cardinality(InFlight(batch)) <= batch.options.maxConcurrency

\* C24: with failFast off, when the batch function returns, every request it
\* started has settled and the array holds exactly one result per submitted
\* request.
C24_OneResultPerRequest ==
    (batch.pc = "returned" /\ ~batch.options.failFast)
    => /\ InFlight(batch) = {}
       /\ Len(batch.results) = batch.n
       /\ \A i \in 1..batch.n :
             Cardinality({k \in DOMAIN batch.results :
                             batch.results[k].request = i}) = 1

\* C25: the results are aligned with the input: the result at index i is the
\* outcome of requests[i], in sequential and in concurrent mode.
C25_ResultsAligned ==
    (batch.pc = "returned" /\ ~batch.options.failFast)
    => \A k \in DOMAIN batch.results :
          /\ batch.results[k].request = k
          /\ batch.results[k].success = (batch.state[k] = "resolved")

-----------------------------------------------------------------------------
(* MutationSpec: one caller of UserApiService: lists of users with and
   without a page, the user with id 1, and the four operations that change
   that user *)

ListTtl == 2
UserTtl == 3

MutationKinds == {"updateUser", "deleteUser", "updateProfile", "uploadAvatar"}

ServiceRequests ==
    {GetUsersRequest(<<>>, ListTtl), GetUsersRequest(<<"page=2">>, ListTtl),
     GetUserByIdRequest("1", UserTtl)}

NextMutation ==
    \/ \E req \in ServiceRequests : CallStart(1, req)
    \/ \E kind \in MutationKinds : UserMutationStart(1, kind, "1")
    \/ CallStep(1, InvalidateResponses)
    \/ Tick

MutationSpec == InitInvalidate /\ [][NextMutation]_vars

\* key is the cache key of a getUsers call
IsUserListKey(key) ==
    /\ Len(key) >= 3
    /\ SubSeq(key, 1, 3) = BaseUrl \o <<"/api/users", "?">>

\* C23: updateUser, deleteUser, updateProfile and uploadAvatar for a user
\* invalidate that user's entry and the cached user list: once the operation
\* has started, the cache holds no entry that could answer getUserById of the
\* user or getUsers(params), for any params (an entry left is expired).
C23_MutationInvalidatesList ==
    [][\A c \in Calls :
        (/\ call[c].pc = "idle"
         /\ call'[c].pc = "fetching"
         /\ call'[c].req.op \in {"put", "delete", "upload"})
        => \A k \in DOMAIN cache' :
              /\ IsUserListKey(k) => now - cache'[k].timestamp > ListTtl
              /\ k # BaseUrl \o UserByIdPath("1")]_vars

-----------------------------------------------------------------------------
(* StaleSpec: caller 1 reads user 1 with getUserById, caller 2 changes it
   with updateUser, on one client; the backend answers each attempt with the
   version of the record it holds when it handles the request *)

\* the response the backend computed for the attempt of call c in flight
ServerResponses(c) ==
    IF server.handled[c] = NoResponse THEN {} ELSE {server.handled[c]}

\* what happens to call c, answered by the backend
ServedStep(c) ==
    \/ \E response \in ServerResponses(c) : FetchResolve(c, response)
    \/ FetchReject(c)
    \/ TimeoutFire(c)
    \/ AbortReject(c)
    \/ ErrBodyRead(c)
    \/ SleepWake(c)
    \/ Decode(c)
    \/ Finish(c)

NextStale ==
    \/ \E c \in Calls, ok \in BOOLEAN : ServerHandle(c, ok)
    \/ \E c \in Calls : ServerForget(c)
    \/ ServerSettled /\ CallStart(1, GetUserByIdRequest("1", UserTtl))
    \/ ServerSettled /\ UserMutationStart(2, "updateUser", "1")
    \/ ServerSettled /\ \E c \in Calls : ServedStep(c)
    \/ ServerSettled /\ Tick

StaleSpec == InitInvalidate /\ [][NextStale]_vars

\* C28: once updateUser has resolved, a getUserById that is answered from the
\* cache is not answered with a body older than the update: while the call of
\* updateUser stands resolved, a cache hit returns the version the backend
\* holds.
C28_NoStaleReadAfterUpdate ==
    [][\A c \in Calls :
        (/\ StartsCachedGet(c)
         /\ call'[c].pc = "returned"
         /\ \E u \in Calls \ {c} :
               call[u].pc = "returned" /\ call[u].req.op = "put")
        => call'[c].outcome.value = JsonValue(UserBody(server.version))]_vars

-----------------------------------------------------------------------------
(* RegisterSpec: two callers of registerUser on services built with or
   without an authService, over one repository *)

NextRegister ==
    \/ \E r \in Registrations, email \in Emails, auth, valid \in BOOLEAN :
          RegisterStart(r, email, auth, valid)
    \/ \E r \in Registrations : RegisterFound(r)
    \/ \E r \in Registrations : RegisterSignedUp(r)
    \/ \E r \in Registrations : RegisterCreated(r)
    \/ \E r \in Registrations : RegisterFinish(r)

RegisterSpec == InitInvalidate /\ [][NextRegister]_vars

\* C27: the repository never holds two user records with the same e-mail
\* address, whatever the overlap of the registerUser calls.
C27_UniqueEmail ==
    \A i, j \in DOMAIN repository.users :
        repository.users[i].email = repository.users[j].email => i = j

-----------------------------------------------------------------------------
(* HookSpec: one mounted useUser hook whose userId prop changes and whose
   fetches settle in any order *)

NextHook ==
    \/ \E id \in UserIds \cup {NoUserId} : SetUserId(id)
    \/ Refresh
    \/ \E k \in 1..MaxFetches, ok \in BOOLEAN : FetchSettle(k, ok)

HookSpec == InitInvalidate /\ [][NextHook]_vars

\* C29: once every fetch has settled, the hook's user is null when the userId
\* is null and the user fetched for the userId when the last fetch made for
\* it succeeded; loading is true exactly while a fetch for the current userId
\* is unsettled.
C29_LatestUserShown ==
    /\ hook.inFlight = <<>>
       => /\ hook.userId = NoUserId => hook.user = NoUserId
          /\ hook.current = "ok" => hook.user = hook.userId
    /\ hook.loading <=> \E k \in DOMAIN hook.inFlight : hook.inFlight[k] = hook.userId

-----------------------------------------------------------------------------
(* ServicesSpec: initializeServices called with every configuration, and
   callers of the three getters *)

NextServices ==
    \/ \E cfg \in ServiceConfigs : InitializeServices(cfg)
    \/ \E getter \in Getters : GetService(getter)

ServicesSpec == InitInvalidate /\ [][NextServices]_vars

Defaults(s) == <<s.defaultUserRepository, s.defaultAuthService, s.defaultUserService>>

\* C30: a call of initializeServices that throws changes none of the three
\* defaults, and after every step the three getters either all throw
\* 'Services not initialized' or all return services of the same call.
C30_InitializeAllOrNothing ==
    [][/\ (services'.calls # services.calls /\ services'.threw)
          => Defaults(services') = Defaults(services)
       /\ \/ \A getter \in Getters : GetterThrows(services'[getter])
          \/ \E n \in 1..MaxInitializations :
                \A getter \in Getters : services'[getter] = n]_vars

====
